---- MODULE Spec2Model ----
(***************************************************************************)
(* The quiz session of app.py.  Streamlit runs main() once per user        *)
(* interaction; st.session_state persists between the runs.  One action    *)
(* below is one run of main() for one widget event (file upload, or a      *)
(* click on "Generate Questions", "Submit Answer", "Next Question" or      *)
(* "Restart Quiz"), including the run that st.experimental_rerun() starts. *)
(*                                                                         *)
(* A question is modelled by its 'correct' field: main() reads no other    *)
(* field of a question to decide a transition.  The generation response    *)
(* is an API error, a text that is not JSON, or a JSON array of questions  *)
(* whose 'correct' may be any of CorrectValues (the code does not validate *)
(* it).                                                                    *)
(***************************************************************************)
EXTENDS Integers, Sequences, FiniteSets, TLC

\* Longest question list the generation service returns in the model.
MaxQuestions == 3

\* app.py:163
choice_labels == {"A", "B", "C", "D"}

\* Values of question['correct'] in a response: the four labels and one
\* value that is no label (json.loads accepts any string).
CorrectValues == choice_labels \cup {"E"}

\* Outcomes of the extraction branch for an uploaded file (app.py:105-119):
\* no file, a file whose text is extracted, a name with no handled
\* extension, a file whose extraction raises.
FileKinds == {"none", "text", "unsupported", "unreadable"}

\* Messages of st.error.
ErrNone == "none"
ErrUnsupported == "Unsupported file format"
ErrExtract == "Failed to extract text"
ErrParse == "Failed to parse generated questions"
ErrGenerate == "Error generating questions"
ErrIncorrect == "Incorrect"

RECURSIVE SeqsUpTo(_, _)
SeqsUpTo(S, n) ==
    IF n = 0 THEN {<<>>}
    ELSE LET shorter == SeqsUpTo(S, n - 1)
         IN  shorter \cup {Append(q, c) : q \in {s \in shorter : Len(s) = n - 1}, c \in S}

\* What generate_questions followed by json.loads can produce (app.py:127-128).
Responses ==
    [status : {"APIError", "JSONDecodeError"}, questions : {<<>>}]
        \cup [status : {"ok"}, questions : SeqsUpTo(CorrectValues, MaxQuestions)]

VARIABLES
    questions,          \* st.session_state.questions ('correct' of each)
    current_question,   \* st.session_state.current_question
    score,              \* st.session_state.score
    streak,             \* st.session_state.streak
    quiz_started,       \* st.session_state.quiz_started
    answered,           \* st.session_state.answered
    uploaded_file,      \* the file uploader's value, by extraction outcome
    error,              \* the st.error message of the last run of main()
    results             \* history: selected_label == correct_label of each
                        \* Submit Answer since the last successful generation

vars == <<questions, current_question, score, streak, quiz_started, answered,
          uploaded_file, error, results>>

session == <<questions, current_question, score, streak, quiz_started, answered>>

\* app.py:84-95, first run of main(): no file, no click.
Init ==
    /\ questions = <<>>
    /\ current_question = 0
    /\ score = 0
    /\ streak = 0
    /\ quiz_started = FALSE
    /\ answered = FALSE
    /\ uploaded_file = "none"
    /\ error = ErrNone
    /\ results = <<>>

\* The three states of the session, as main() tells them apart.
NotStarted == ~quiz_started
Completed == quiz_started /\ current_question >= Len(questions)
InProgress == quiz_started /\ current_question < Len(questions)

\* app.py:105-119: the st.error of the extraction block in a run that
\* starts with file f and the given quiz_started.
ExtractError(f, started) ==
    IF started \/ f = "none" THEN ErrNone
    ELSE IF f = "unsupported" THEN ErrUnsupported
    ELSE IF f = "unreadable" THEN ErrExtract
    ELSE ErrNone

\* A run of main() after the file uploader's value became f, no button
\* clicked.
UploadFile(f) ==
    /\ uploaded_file' = f
    /\ error' = ExtractError(f, quiz_started)
    /\ UNCHANGED <<session, results>>

\* GenerateQuestions without the reset of current_question (app.py:131).
GenerateQuestions_KeepIndex(r) ==
    /\ ~quiz_started
    /\ uploaded_file = "text"
    /\ IF r.status = "ok"
       THEN /\ questions' = r.questions
            /\ quiz_started' = TRUE
            /\ score' = 0
            /\ streak' = 0
            /\ answered' = FALSE
            /\ results' = <<>>
            /\ error' = ErrNone
            /\ UNCHANGED current_question
       ELSE /\ error' = (IF r.status = "JSONDecodeError" THEN ErrParse ELSE ErrGenerate)
            /\ UNCHANGED <<session, results>>
    /\ UNCHANGED uploaded_file

\* GenerateQuestions without the reset of score (app.py:132).
GenerateQuestions_KeepScore(r) ==
    /\ ~quiz_started
    /\ uploaded_file = "text"
    /\ IF r.status = "ok"
       THEN /\ questions' = r.questions
            /\ quiz_started' = TRUE
            /\ current_question' = 0
            /\ streak' = 0
            /\ answered' = FALSE
            /\ results' = <<>>
            /\ error' = ErrNone
            /\ UNCHANGED score
       ELSE /\ error' = (IF r.status = "JSONDecodeError" THEN ErrParse ELSE ErrGenerate)
            /\ UNCHANGED <<session, results>>
    /\ UNCHANGED uploaded_file

\* GenerateQuestions that sets quiz_started before json.loads (app.py:128-130).
GenerateQuestions_StartBeforeParse(r) ==
    /\ ~quiz_started
    /\ uploaded_file = "text"
    /\ IF r.status = "ok"
       THEN /\ questions' = r.questions
            /\ quiz_started' = TRUE
            /\ current_question' = 0
            /\ score' = 0
            /\ streak' = 0
            /\ answered' = FALSE
            /\ results' = <<>>
            /\ error' = ErrNone
       ELSE /\ error' = (IF r.status = "JSONDecodeError" THEN ErrParse ELSE ErrGenerate)
            /\ quiz_started' = (r.status = "JSONDecodeError")
            /\ UNCHANGED <<questions, current_question, score, streak, answered,
                           results>>
    /\ UNCHANGED uploaded_file

\* GenerateQuestions whose button is shown during a quiz too (app.py:105).
GenerateQuestions_WhileStarted(r) ==
    /\ uploaded_file = "text"
    /\ IF r.status = "ok"
       THEN /\ questions' = r.questions
            /\ quiz_started' = TRUE
            /\ current_question' = 0
            /\ score' = 0
            /\ streak' = 0
            /\ answered' = FALSE
            /\ results' = <<>>
            /\ error' = ErrNone
       ELSE /\ error' = (IF r.status = "JSONDecodeError" THEN ErrParse ELSE ErrGenerate)
            /\ UNCHANGED <<session, results>>
    /\ UNCHANGED uploaded_file

\* A run of main() with "Generate Questions" clicked (app.py:124-140).  The
\* button exists only when the file's text was extracted and no quiz runs.
GenerateQuestions(r) ==
    /\ ~quiz_started
    /\ uploaded_file = "text"
    /\ IF r.status = "ok"
       THEN /\ questions' = r.questions
            /\ quiz_started' = TRUE
            /\ current_question' = 0
            /\ score' = 0
            /\ streak' = 0
            /\ answered' = FALSE
            /\ results' = <<>>
            /\ error' = ErrNone
       ELSE /\ error' = (IF r.status = "JSONDecodeError" THEN ErrParse ELSE ErrGenerate)
            /\ UNCHANGED <<session, results>>
    /\ UNCHANGED uploaded_file

\* SubmitAnswer that leaves the streak alone on a mismatch (app.py:187).
SubmitAnswer_KeepStreak(selected_label) ==
    /\ quiz_started
    /\ current_question < Len(questions)
    /\ ~answered
    /\ LET correct_label == questions[current_question + 1]
       IN  IF selected_label = correct_label
           THEN /\ score' = score + 1
                /\ streak' = streak + 1
                /\ error' = ErrNone
                /\ results' = Append(results, TRUE)
           ELSE /\ streak' = streak
                /\ error' = ErrIncorrect
                /\ results' = Append(results, FALSE)
                /\ UNCHANGED score
    /\ answered' = TRUE
    /\ UNCHANGED <<questions, current_question, quiz_started, uploaded_file>>

\* SubmitAnswer that sets the streak to 1 on a match (app.py:183).
SubmitAnswer_StreakOne(selected_label) ==
    /\ quiz_started
    /\ current_question < Len(questions)
    /\ ~answered
    /\ LET correct_label == questions[current_question + 1]
       IN  IF selected_label = correct_label
           THEN /\ score' = score + 1
                /\ streak' = 1
                /\ error' = ErrNone
                /\ results' = Append(results, TRUE)
           ELSE /\ streak' = 0
                /\ error' = ErrIncorrect
                /\ results' = Append(results, FALSE)
                /\ UNCHANGED score
    /\ answered' = TRUE
    /\ UNCHANGED <<questions, current_question, quiz_started, uploaded_file>>

\* SubmitAnswer whose button is shown after the answer too (app.py:176).
SubmitAnswer_NoAnsweredGuard(selected_label) ==
    /\ quiz_started
    /\ current_question < Len(questions)
    /\ LET correct_label == questions[current_question + 1]
       IN  IF selected_label = correct_label
           THEN /\ score' = score + 1
                /\ streak' = streak + 1
                /\ error' = ErrNone
                /\ results' = Append(results, TRUE)
           ELSE /\ streak' = 0
                /\ error' = ErrIncorrect
                /\ results' = Append(results, FALSE)
                /\ UNCHANGED score
    /\ answered' = TRUE
    /\ UNCHANGED <<questions, current_question, quiz_started, uploaded_file>>

\* SubmitAnswer that moves to the next question by itself.
SubmitAnswer_AutoAdvance(selected_label) ==
    /\ quiz_started
    /\ current_question < Len(questions)
    /\ ~answered
    /\ LET correct_label == questions[current_question + 1]
       IN  IF selected_label = correct_label
           THEN /\ score' = score + 1
                /\ streak' = streak + 1
                /\ error' = ErrNone
                /\ results' = Append(results, TRUE)
           ELSE /\ streak' = 0
                /\ error' = ErrIncorrect
                /\ results' = Append(results, FALSE)
                /\ UNCHANGED score
    /\ current_question' = current_question + 1
    /\ answered' = FALSE
    /\ UNCHANGED <<questions, quiz_started, uploaded_file>>

\* A run of main() with "Submit Answer" clicked (app.py:176-191).
SubmitAnswer(selected_label) ==
    /\ quiz_started
    /\ current_question < Len(questions)
    /\ ~answered
    /\ LET correct_label == questions[current_question + 1]
       IN  IF selected_label = correct_label
           THEN /\ score' = score + 1
                /\ streak' = streak + 1
                /\ error' = ErrNone
                /\ results' = Append(results, TRUE)
           ELSE /\ streak' = 0
                /\ error' = ErrIncorrect
                /\ results' = Append(results, FALSE)
                /\ UNCHANGED score
    /\ answered' = TRUE
    /\ UNCHANGED <<questions, current_question, quiz_started, uploaded_file>>

\* NextQuestion whose button is shown before the answer (app.py:193).
NextQuestion_NoAnsweredGuard ==
    /\ quiz_started
    /\ current_question < Len(questions)
    /\ current_question' = current_question + 1
    /\ answered' = FALSE
    /\ error' = ErrNone
    /\ UNCHANGED <<questions, score, streak, quiz_started, uploaded_file, results>>

\* NextQuestion without the reset of answered (app.py:196).
NextQuestion_KeepAnswered ==
    /\ quiz_started
    /\ current_question < Len(questions)
    /\ answered
    /\ current_question' = current_question + 1
    /\ error' = ErrNone
    /\ UNCHANGED <<questions, score, streak, quiz_started, answered, uploaded_file,
                   results>>

\* NextQuestion whose button is shown under `not answered` (app.py:193).
NextQuestion_InvertedGuard ==
    /\ quiz_started
    /\ current_question < Len(questions)
    /\ ~answered
    /\ current_question' = current_question + 1
    /\ answered' = FALSE
    /\ error' = ErrNone
    /\ UNCHANGED <<questions, score, streak, quiz_started, uploaded_file, results>>

\* A run of main() with "Next Question" clicked (app.py:193-197).
NextQuestion ==
    /\ quiz_started
    /\ current_question < Len(questions)
    /\ answered
    /\ current_question' = current_question + 1
    /\ answered' = FALSE
    /\ error' = ErrNone
    /\ UNCHANGED <<questions, score, streak, quiz_started, uploaded_file, results>>

\* RestartQuiz that also zeroes the score.
RestartQuiz_ClearScore ==
    /\ quiz_started
    /\ current_question >= Len(questions)
    /\ quiz_started' = FALSE
    /\ score' = 0
    /\ error' = ExtractError(uploaded_file, FALSE)
    /\ UNCHANGED <<questions, current_question, streak, answered, uploaded_file,
                   results>>

\* RestartQuiz whose button is shown during the quiz too.
RestartQuiz_AnyTime ==
    /\ quiz_started
    /\ quiz_started' = FALSE
    /\ error' = ExtractError(uploaded_file, FALSE)
    /\ UNCHANGED <<questions, current_question, score, streak, answered,
                   uploaded_file, results>>

\* A run of main() with "Restart Quiz" clicked (app.py:146-153), and the
\* run it restarts, which extracts the uploaded file again.
RestartQuiz ==
    /\ quiz_started
    /\ current_question >= Len(questions)
    /\ quiz_started' = FALSE
    /\ error' = ExtractError(uploaded_file, FALSE)
    /\ UNCHANGED <<questions, current_question, score, streak, answered,
                   uploaded_file, results>>

Next ==
    \/ \E f \in FileKinds : UploadFile(f)
    \/ \E r \in Responses : GenerateQuestions(r)
    \/ \E selected_label \in choice_labels : SubmitAnswer(selected_label)
    \/ NextQuestion
    \/ RestartQuiz

Spec == Init /\ [][Next]_vars

\* A Generate step whose response parsed (app.py:127-135): the Load of the
\* question set the step stores.
Load == GenerateQuestions([status |-> "ok", questions |-> questions'])

\* A Generate step whose request or parse raised (app.py:136-140).
GenerateFails ==
    \E status \in {"APIError", "JSONDecodeError"} :
        GenerateQuestions([status |-> status, questions |-> <<>>])

\* The user's clicks on "Submit Answer", whatever the label.
Submit == \E selected_label \in choice_labels : SubmitAnswer(selected_label)

\* The program with a user who keeps clicking "Submit Answer" and "Next
\* Question" while the button is shown.
LiveSpec == Init /\ [][Next]_vars /\ WF_vars(Submit) /\ WF_vars(NextQuestion)

----
\* The number of questions answered so far in a started session.
AnsweredCount == current_question + (IF answered THEN 1 ELSE 0)

AllCorrect == \A i \in DOMAIN results : results[i]

C2_EmptySetRejected ==
    [][(\E r \in Responses :
            r.status = "ok" /\ r.questions = <<>> /\ GenerateQuestions(r))
          => quiz_started' = FALSE]_vars

\* C3: a Submit step taken in InProgress with answered false adds exactly 1
\* to score and to streak when the selected label is the current question's
\* correct label, and otherwise zeroes the streak and keeps the score; either
\* way answered becomes true and the index and the question set stay.
C3_SubmitScores ==
    [][\A l \in choice_labels :
          SubmitAnswer(l) =>
             /\ InProgress /\ ~answered
             /\ IF l = questions[current_question + 1]
                THEN score' = score + 1 /\ streak' = streak + 1
                ELSE score' = score /\ streak' = 0
             /\ answered' = TRUE
             /\ current_question' = current_question
             /\ questions' = questions]_vars

\* A mismatch was submitted after a match: the streak is back to 0 and the
\* score is kept.
C3_Witness ==
    /\ InProgress
    /\ answered
    /\ Len(results) >= 2
    /\ ~results[Len(results)]
    /\ results[Len(results) - 1]
    /\ streak = 0
    /\ score >= 1

\* C4: from a state with started true and answered false no step changes
\* the current index, and no step is an Advance.
C4_NoAdvanceBeforeSubmit ==
    [][(quiz_started /\ ~answered) =>
          /\ current_question' = current_question
          /\ ~NextQuestion]_vars

\* A question other than the first is current and not yet submitted.
C4_Witness ==
    /\ InProgress
    /\ ~answered
    /\ current_question >= 1

\* C5: from a state with answered true, or not InProgress, no step is a
\* Submit: answered is not set, and score and streak stay, unless the step
\* is the Load that zeroes both.
C5_SubmitOnlyOnce ==
    [][(answered \/ ~InProgress) =>
          /\ \A l \in choice_labels : ~SubmitAnswer(l)
          /\ results' = results \/ results' = <<>>
          /\ answered' => answered
          /\ \/ score' = score /\ streak' = streak
             \/ ~quiz_started /\ quiz_started' /\ score' = 0 /\ streak' = 0]_vars

\* The current question was submitted and scored, and is still current.
C5_Witness ==
    /\ InProgress
    /\ answered
    /\ score = AnsweredCount
    /\ score >= 2

\* C6: a Completed session in which every question was submitted with its
\* correct label has score and streak equal to the length of the set.
C6_AllCorrectRun ==
    (Completed /\ Len(results) = Len(questions) /\ AllCorrect)
        => score = Len(questions) /\ streak = Len(questions)

\* A set of MaxQuestions questions was completed with every answer correct.
C6_Witness ==
    /\ Completed
    /\ Len(questions) >= 3
    /\ Len(results) = Len(questions)
    /\ AllCorrect
    /\ score = Len(questions)

\* C7: the current index is between 0 and the length of the question set,
\* and it is below the length whenever a question is read (that is, whenever
\* the session is started and not Completed).
C7_IndexInBounds ==
    /\ current_question \in 0..Len(questions)
    /\ (quiz_started /\ ~Completed) => (current_question + 1) \in DOMAIN questions

\* The last question of a set of two or more was left by an Advance.
C7_Witness ==
    /\ quiz_started
    /\ Len(questions) >= 2
    /\ current_question = Len(questions)

\* C8: in a started session streak <= score and score <= the number of
\* questions answered so far.
C8_StreakScoreBounds ==
    quiz_started =>
        /\ 0 <= streak
        /\ streak <= score
        /\ score <= AnsweredCount

\* Both inequalities are strict: a match, a mismatch, a match.
C8_Witness ==
    /\ quiz_started
    /\ 0 < streak
    /\ streak < score
    /\ score < AnsweredCount

\* C9: an Advance step is taken in InProgress with answered true, adds 1 to
\* the index, resets answered, keeps score, streak and the question set, and
\* ends in InProgress when the new index is below the length and in
\* Completed otherwise; and answered is false after every step that makes a
\* question current (a Load or an Advance).
C9_AdvanceEffect ==
    [][/\ NextQuestion =>
             /\ InProgress /\ answered
             /\ current_question' = current_question + 1
             /\ answered' = FALSE
             /\ score' = score /\ streak' = streak
             /\ questions' = questions
             /\ IF current_question + 1 < Len(questions)
                THEN InProgress' ELSE Completed'
       /\ (current_question' # current_question \/ (~quiz_started /\ quiz_started'))
             => answered' = FALSE]_vars

\* An Advance left the last question with the score and streak it had.
C9_Witness ==
    /\ Completed
    /\ ~answered
    /\ Len(results) = Len(questions)
    /\ Len(questions) >= 2
    /\ streak >= 1
    /\ streak < score

\* C10 (as claimed): in every InProgress state and in every Completed state
\* a Restart step is enabled and leads to NotStarted.
C10_RestartAnyTime ==
    (InProgress \/ Completed) => ENABLED (RestartQuiz /\ ~quiz_started')

\* C10 (amended): a Restart step is enabled in every Completed state and in
\* no other state, and every Restart step leads to NotStarted.
C10_RestartOnlyWhenCompleted ==
    /\ Completed => ENABLED (RestartQuiz /\ ~quiz_started')
    /\ (InProgress \/ NotStarted) => ~ENABLED RestartQuiz
    /\ ~ENABLED (RestartQuiz /\ quiz_started')

\* A quiz is under way, past its first question, with no Restart on offer.
C10_Witness ==
    /\ InProgress
    /\ current_question >= 1
    /\ answered
    /\ ~ENABLED RestartQuiz

\* The st.error messages of a failed attempt (app.py:115, 118, 137, 140).
FailureMessages == {ErrUnsupported, ErrExtract, ErrParse, ErrGenerate}

\* C11: a step that ends with the message of a failed attempt (unsupported
\* extension, extraction exception, generation request exception, response
\* that is not JSON) ends in NotStarted and leaves every session variable as
\* it was; the one exception is the Restart click, whose own assignment of
\* started precedes the failed extraction of the run it starts.  A Generate
\* step with a failing response, and an upload of a file that fails to
\* extract, change no session variable.
C11_FailedAttemptKeepsSession ==
    [][/\ error' \in FailureMessages =>
             /\ quiz_started' = FALSE
             /\ RestartQuiz \/ (~quiz_started /\ UNCHANGED session)
       /\ GenerateFails =>
             /\ error' \in {ErrParse, ErrGenerate}
             /\ UNCHANGED session
       /\ (\E f \in {"unsupported", "unreadable"} : UploadFile(f)) =>
             UNCHANGED session]_vars

\* A generation whose response was not JSON failed after a completed quiz:
\* the data of that quiz is untouched and the session is NotStarted.
C11_Witness ==
    /\ error = ErrParse
    /\ ~quiz_started
    /\ Len(questions) >= 2
    /\ score >= 1

RECURSIVE CountCorrect(_)
\* The number of correct answers in a history of results.
CountCorrect(rs) ==
    IF rs = <<>> THEN 0
    ELSE CountCorrect(SubSeq(rs, 1, Len(rs) - 1)) + (IF rs[Len(rs)] THEN 1 ELSE 0)

RECURSIVE TrailingRun(_)
\* The length of the maximal run of correct answers that ends the history.
TrailingRun(rs) ==
    IF rs = <<>> \/ ~rs[Len(rs)] THEN 0
    ELSE TrailingRun(SubSeq(rs, 1, Len(rs) - 1)) + 1

\* C12: in a Completed session with one answer per question the score is
\* the number of correct answers and the streak is the length of the run of
\* correct answers ending at the last question; correct labels A, B, C
\* answered right, wrong, right give score 2 and streak 1.
C12_FinalScoreAndStreak ==
    /\ (Completed /\ Len(results) = Len(questions)) =>
          /\ score = CountCorrect(results)
          /\ streak = TrailingRun(results)
    /\ (Completed /\ questions = <<"A", "B", "C">> /\ results = <<TRUE, FALSE, TRUE>>) =>
          score = 2 /\ streak = 1

\* The scenario of the claim has been played to the end.
C12_Witness ==
    /\ Completed
    /\ questions = <<"A", "B", "C">>
    /\ results = <<TRUE, FALSE, TRUE>>
    /\ score = 2
    /\ streak = 1

\* C13: a Load step (a Generate step with a parsed response) is taken only
\* in NotStarted and ends with index 0, score 0, streak 0, answered false and
\* the response's question set; the first question of a session is never
\* current with a score or streak left from an earlier one; and no step
\* taken while the session is started changes the question set.
C13_LoadResetsAndSetIsFixed ==
    [][/\ Load =>
             /\ ~quiz_started
             /\ quiz_started'
             /\ [status |-> "ok", questions |-> questions'] \in Responses
             /\ current_question' = 0
             /\ score' = 0
             /\ streak' = 0
             /\ answered' = FALSE
       /\ (~quiz_started /\ quiz_started') =>
             current_question' = 0 /\ score' = 0 /\ streak' = 0 /\ ~answered'
       /\ (quiz_started' /\ current_question' = 0 /\ ~answered') =>
             score' = 0 /\ streak' = 0
       /\ quiz_started => questions' = questions]_vars

\* A set of three questions has just been loaded.
C13_Witness ==
    /\ InProgress
    /\ Len(questions) = 3
    /\ current_question = 0
    /\ ~answered
    /\ results = <<>>
    /\ score = 0
    /\ streak = 0

\* C14: while the session stays started the index either stays or grows by
\* exactly 1, and it grows only by an Advance step; in every started state
\* the number of answers submitted is the number of questions answered so
\* far (one per question at an index below the current one, plus the current
\* one if answered), so Completed is reached with each question submitted
\* exactly once, in order.
C14_StrictlyLinear ==
    [][/\ (quiz_started /\ quiz_started') =>
             \/ current_question' = current_question
             \/ current_question' = current_question + 1 /\ NextQuestion
       /\ quiz_started' => Len(results') = AnsweredCount'
       /\ Completed' => Len(results') = Len(questions')
       /\ (Len(results') > Len(results)) =>
             /\ Len(results') = Len(results) + 1
             /\ Len(results') = current_question + 1
             /\ current_question' = current_question]_vars

\* A quiz of three questions was completed by three submissions, the first
\* and the last of them wrong.
C14_Witness ==
    /\ Completed
    /\ Len(questions) = 3
    /\ results = <<FALSE, TRUE, FALSE>>
    /\ current_question = 3

\* C15 (as claimed): every question of the question set of a started session
\* has a correct label among A, B, C, D.
C15_CorrectLabelIsAChoice ==
    quiz_started => \A i \in DOMAIN questions : questions[i] \in choice_labels

\* C16: no step is both a Submit (an answer recorded, answered set) and an
\* Advance (the index moved); none is both a Load and a Submit; none is both
\* an Advance and a Restart; and each step is at most one of Load, Submit,
\* Advance and Restart.
C16_OneTransitionPerRun ==
    [][LET load == Load
           submit == \E l \in choice_labels : SubmitAnswer(l)
           moved == quiz_started /\ current_question' # current_question
           recorded == Len(results') > Len(results)
           stopped == quiz_started /\ ~quiz_started'
           begun == ~quiz_started /\ quiz_started'
       IN  /\ ~(recorded /\ moved)
           /\ ~(begun /\ recorded)
           /\ ~(moved /\ stopped)
           /\ ~(begun /\ (answered' \/ results' # <<>>))
           /\ submit => (answered' /\ ~moved /\ ~stopped)
           /\ NextQuestion => (~recorded /\ ~stopped /\ results' = results)
           /\ RestartQuiz => (~recorded /\ ~moved /\ ~quiz_started')
           /\ load => (~recorded /\ current_question' = 0)
           /\ ~(load /\ submit) /\ ~(load /\ NextQuestion) /\ ~(load /\ RestartQuiz)
           /\ ~(submit /\ NextQuestion) /\ ~(submit /\ RestartQuiz)
           /\ ~(NextQuestion /\ RestartQuiz)]_vars

\* The last question was submitted and is still current: the run that
\* recorded the answer did not advance or complete the quiz.
C16_Witness ==
    /\ InProgress
    /\ answered
    /\ Len(questions) >= 2
    /\ current_question + 1 = Len(questions)
    /\ Len(results) = Len(questions)

RECURSIVE LongestRun(_)
\* The longest run of consecutive correct answers anywhere in a history.
LongestRun(rs) ==
    IF rs = <<>> THEN 0
    ELSE LET before == LongestRun(SubSeq(rs, 1, Len(rs) - 1))
             ending == TrailingRun(rs)
         IN  IF ending > before THEN ending ELSE before

\* The value the completion screen shows as "Best Streak" (app.py:149).
BestStreakShown == streak

\* C17 (as claimed): on the completion screen the value shown as "Best
\* Streak" is the longest run of consecutive correct answers of the quiz.
C17_BestStreakIsLongestRun ==
    Completed => BestStreakShown = LongestRun(results)

\* C18: under weak fairness of Submit and Next, every InProgress session
\* eventually is Completed; in every InProgress state exactly one of Submit
\* and Next is enabled; and a Completed session has had exactly as many
\* answers submitted, and as many Advances, as its set has questions.
C18_QuizTerminates ==
    /\ [](InProgress => ((ENABLED Submit) # (ENABLED NextQuestion)))
    /\ [](Completed => (Len(results) = Len(questions) /\ current_question = Len(questions)))
    /\ (InProgress ~> Completed)

\* A quiz of three questions, none of them answerable correctly, was played
\* to the end.
C18_Witness ==
    /\ Completed
    /\ questions = <<"E", "E", "E">>
    /\ Len(results) = 3
    /\ score = 0

====
